---- MODULE Spec2Model ----
(***************************************************************************)
(* A model of the dice command interpreter of qqchannel-bot:               *)
(* src/server/service/qapi/dice.ts (class DiceManager and its helpers).    *)
(*                                                                         *)
(* Text is modelled as a sequence of one-character strings.  A CJK         *)
(* ideograph is written by its code point ("U4FA6" is one character).      *)
(***************************************************************************)
EXTENDS Integers, Sequences, FiniteSets, TLC

VARIABLES
  pc, arg, ret,       \* a pure function under check: its argument and its result
  msgCache,           \* DiceManager.msgCache: [order, val], order from least to most recently used
  opposedRollCache,   \* DiceManager.opposedRollCache: [order, val]
  fetches,            \* the fetchMethod calls in flight: fetch id -> [key, req, aborted, waiters]
  objs,               \* the IMessageCache objects fetched: id -> [text, instruction, scans]
  ready,              \* handleGuildReactions continuations whose fetch has resolved, in order
  posts,              \* the calls of channel.sendMessage not yet answered: a set of
                      \* [roll, from]; from is "stub" for the stub of a hidden roll,
                      \* whose answer no handler awaits
  apiCalls,           \* messageApi.message calls issued so far, per (channel, message)
  apiDone,            \* messageApi.message calls answered so far, per (channel, message)
  detectRuns,         \* detectInstruction runs so far, per (channel, message)
  serial,             \* [fetch, roll, msg]: the ids handed out so far; sets: opposedRollCache.set calls
  last,               \* the most recent invocation of a handler that got to its command text
  events,             \* [react, guild, direct, fill, filled]: the events delivered so far;
                      \* unhandled: the handler promises rejected with nothing to catch them
  posted              \* the messages posted: message id -> [roll, at, touched, stub]

pureVars == <<pc, arg, ret>>

machineVars == <<msgCache, opposedRollCache, fetches, objs, ready, posts, apiCalls, apiDone,
                 detectRuns, serial, last, events, posted>>

vars == <<pc, arg, ret, msgCache, opposedRollCache, fetches, objs, ready, posts, apiCalls, apiDone,
          detectRuns, serial, last, events, posted>>

None == [t |-> "none", s |-> <<>>]

(***************************************************************************)
(* Characters and the string primitives of JavaScript the code uses.       *)
(***************************************************************************)
Digits == <<"0", "1", "2", "3", "4", "5", "6", "7", "8", "9">>

Ideographs == {"U4FA6", "U5BDF"}

Spaces == {" "}

IsDigit(c) == \E i \in 1..10 : Digits[i] = c

DigitVal(c) == (CHOOSE i \in 1..10 : Digits[i] = c) - 1

AllDigits(s) == \A i \in 1..Len(s) : IsDigit(s[i])

RECURSIVE parseInt(_)
parseInt(s) ==
  IF s = <<>> THEN 0
  ELSE parseInt(SubSeq(s, 1, Len(s) - 1)) * 10 + DigitVal(s[Len(s)])

RECURSIVE numToString(_)
numToString(n) ==
  IF n < 10 THEN <<Digits[n + 1]>>
  ELSE numToString(n \div 10) \o <<Digits[(n % 10) + 1]>>

\* s.slice(from): the text from the 0-based position from on
slice(s, from) == SubSeq(s, from + 1, Len(s))

\* s.slice(0, to): the text before the 0-based position to
sliceTo(s, to) == SubSeq(s, 1, to)

RECURSIVE trimStart(_)
trimStart(s) ==
  IF s # <<>> /\ s[1] \in Spaces THEN trimStart(Tail(s)) ELSE s

RECURSIVE trimEnd(_)
trimEnd(s) ==
  IF s # <<>> /\ s[Len(s)] \in Spaces THEN trimEnd(SubSeq(s, 1, Len(s) - 1)) ELSE s

trim(s) == trimEnd(trimStart(s))

startsWith(s, p) == Len(s) >= Len(p) /\ SubSeq(s, 1, Len(p)) = p

\* search splitting at white space only: a faulty variant
searchSpacesOnly(s) ==
  LET hits == {i \in 1..Len(s) : s[i] \in Spaces}
  IN  IF hits = {} THEN -1
      ELSE (CHOOSE i \in hits : \A j \in hits : i <= j) - 1

\* fullExp.search(/[\p{Unified_Ideograph}\s]/u): the 0-based position of the
\* first ideograph or white space, -1 when there is none
search(s) ==
  LET hits == {i \in 1..Len(s) : s[i] \in Ideographs \cup Spaces}
  IN  IF hits = {} THEN -1
      ELSE (CHOOSE i \in hits : \A j \in hits : i <= j) - 1

(***************************************************************************)
(* decideResult (dice.ts 519-530).                                         *)
(***************************************************************************)
\* decideResult with the band of the worst level not depending on baseValue: a faulty variant
decideResultLooseBand(cardEntry, roll) ==
  IF roll = 1
    THEN [success |-> TRUE, level |-> "BEST", desc |-> <<"crit", 0>>]
  ELSE IF roll > 95
    THEN [success |-> FALSE, level |-> "WORST", desc |-> <<"fumble", 0>>]
  ELSE IF roll <= cardEntry.value
    THEN [success |-> TRUE, level |-> "REGULAR_SUCCESS", desc |-> <<"le", cardEntry.value>>]
  ELSE [success |-> FALSE, level |-> "FAIL", desc |-> <<"gt", cardEntry.value>>]

decideResult(cardEntry, roll) ==
  IF roll = 1
    THEN [success |-> TRUE, level |-> "BEST", desc |-> <<"crit", 0>>]
  ELSE IF (cardEntry.baseValue < 50 /\ roll > 95) \/ (cardEntry.baseValue >= 50 /\ roll = 100)
    THEN [success |-> FALSE, level |-> "WORST", desc |-> <<"fumble", 0>>]
  ELSE IF roll <= cardEntry.value
    THEN [success |-> TRUE, level |-> "REGULAR_SUCCESS", desc |-> <<"le", cardEntry.value>>]
  ELSE [success |-> FALSE, level |-> "FAIL", desc |-> <<"gt", cardEntry.value>>]

(***************************************************************************)
(* parseFullExp (dice.ts 268-306).  exp is the text before the first       *)
(* ideograph or white space, so it holds no white space and the \s* of the *)
(* two patterns can only match the empty text.                             *)
(***************************************************************************)
\* exp.match(/^r([bp])\s*(\d+)?$/): [ok, type, count], count <<>> when the
\* second group did not take part
rbrpMatch(exp) ==
  IF /\ Len(exp) >= 2
     /\ exp[1] = "r"
     /\ exp[2] \in {"b", "p"}
     /\ AllDigits(slice(exp, 2))
    THEN [ok |-> TRUE, type |-> exp[2], count |-> slice(exp, 2)]
    ELSE [ok |-> FALSE, type |-> "", count |-> <<>>]

\* the length of the longest run of digits of s that starts at 1-based position i
RECURSIVE digitRun(_, _)
digitRun(s, i) ==
  IF i <= Len(s) /\ IsDigit(s[i]) THEN 1 + digitRun(s, i + 1) ELSE 0

\* exp.match(/^w{1,2}\s*(\d+)\s*a?\s*(\d+)*$/): [ok, dice, explode], explode
\* <<>> when the second group did not take part
wwMatchAt(exp, w) ==
  LET n1   == digitRun(exp, w + 1)
      p    == w + n1 + 1
      hasA == p <= Len(exp) /\ exp[p] = "a"
      q    == IF hasA THEN p + 1 ELSE p
      n2   == digitRun(exp, q)
  IN  IF n1 >= 1 /\ q + n2 = Len(exp) + 1
        THEN [ok |-> TRUE, dice |-> SubSeq(exp, w + 1, w + n1),
              explode |-> SubSeq(exp, q, q + n2 - 1)]
        ELSE [ok |-> FALSE, dice |-> <<>>, explode |-> <<>>]

wwMatch(exp) ==
  IF Len(exp) >= 2 /\ exp[1] = "w" /\ exp[2] = "w" /\ wwMatchAt(exp, 2).ok
    THEN wwMatchAt(exp, 2)
  ELSE IF Len(exp) >= 1 /\ exp[1] = "w"
    THEN wwMatchAt(exp, 1)
  ELSE [ok |-> FALSE, dice |-> <<>>, explode |-> <<>>]

\* rbrpExpression rolling count dice instead of count + 1: a faulty variant
rbrpExpressionNoExtraDie(m) ==
  LET type  == IF m.type = "b" THEN "l" ELSE "h"
      count == parseInt(IF m.count = <<>> THEN <<"1">> ELSE m.count)
  IN  numToString(count) \o <<"d", "%", "k", type, "1">>

rbrpExpression(m) ==
  LET type  == IF m.type = "b" THEN "l" ELSE "h"
      count == parseInt(IF m.count = <<>> THEN <<"1">> ELSE m.count)
  IN  numToString(count + 1) \o <<"d", "%", "k", type, "1">>

parseFullExp(fullExp) ==
  IF fullExp = <<"s", "c">> \/ fullExp = <<"S", "C">>
    THEN <<<<"d", "%">>, <<"s", "c">>>>
  ELSE
    LET index == search(fullExp)
        exp   == IF index < 0 THEN fullExp ELSE sliceTo(fullExp, index)
        desc  == IF index < 0 THEN <<>> ELSE slice(fullExp, index)
    IN  IF exp = <<"d">> \/ exp = <<"r">> \/ exp = <<"r", "d">>
          THEN <<<<"d", "%">>, desc>>
        ELSE IF exp = <<"r", "a">>
          THEN <<<<"d", "%">>, desc>>
        ELSE IF rbrpMatch(exp).ok
          THEN <<rbrpExpression(rbrpMatch(exp)), desc>>
        ELSE IF wwMatch(exp).ok
          THEN LET diceCount    == parseInt(wwMatch(exp).dice)
                   explodeCount == parseInt(IF wwMatch(exp).explode = <<>>
                                              THEN <<"1", "0">>
                                              ELSE wwMatch(exp).explode)
               IN  <<numToString(diceCount) \o <<"d", "1", "0", "!", ">", "=">>
                       \o numToString(explodeCount) \o <<">", "=", "8">>, desc>>
        ELSE IF startsWith(exp, <<"r">>)
          THEN <<trim(slice(exp, 1)), desc>>
        ELSE <<exp, desc>>

(***************************************************************************)
(* The skill check of the earlier DiceManager (dice.ts 142-209).  A skill  *)
(* name or a difficulty word is one character of a text: "sanity", "luck", *)
(* "idea", "int", "spot" and "spot2" stand for the names of dice.ts        *)
(* 181-192 (spot2 for the spelling dice.ts 192 rewrites to spot), "hard",  *)
(* "extreme" and "limit" for the difficulty words of dice.ts 189-191.      *)
(* A card is [t, san, luck, props, skills], or NoCard.                     *)
(***************************************************************************)
NoCard == [t |-> "none", san |-> 0, luck |-> 0, props |-> <<>>, skills |-> <<>>]

NoResult == [t |-> "null", resultDesc |-> <<>>, skill |-> <<>>]

\* skill.replace(/(hard|extreme|limit)/g, '') (dice.ts 191)
withoutDifficulty(skill) == SelectSeq(skill, LAMBDA c : c \notin {"hard", "extreme", "limit"})

contains(skill, word) == \E i \in 1..Len(skill) : skill[i] = word

\* card.props[skill] || card.skills[skill], 0 for undefined (dice.ts 193)
skillTarget(card, skill) ==
  LET name == IF Len(skill) = 1 THEN skill[1] ELSE ""
  IN  IF name \in DOMAIN card.props /\ card.props[name] # 0 THEN card.props[name]
      ELSE IF name \in DOMAIN card.skills THEN card.skills[name]
      ELSE 0

\* realTarget with a hard check at a fifth and an extreme one at a half: a faulty variant
realTargetSwapped(target, isHard, isEx) ==
  IF isEx THEN target \div 2 ELSE IF isHard THEN target \div 5 ELSE target

\* isEx ? Math.floor(target / 5) : (isHard ? Math.floor(target / 2) : target) (dice.ts 202)
realTarget(target, isHard, isEx) ==
  IF isEx THEN target \div 5 ELSE IF isHard THEN target \div 2 ELSE target

compared(roll, target) == IF roll <= target THEN <<"le", target>> ELSE <<"gt", target>>

\* DiceManager.decideResult of dice.ts 172-209
decideResultEarlier(card, desc, roll) ==
  LET skill == trim(desc)
  IN  IF skill = <<>> THEN NoResult
      ELSE IF card = NoCard THEN NoResult
      ELSE IF skill \in {<<"sanity">>, <<"sc">>, <<"SC">>}
        THEN [t |-> "result", resultDesc |-> compared(roll, card.san), skill |-> skill]
      ELSE IF skill = <<"luck">>
        THEN [t |-> "result", resultDesc |-> compared(roll, card.luck), skill |-> skill]
      ELSE IF skill = <<"idea">>
        THEN [t |-> "result", resultDesc |-> compared(roll, card.props["int"]), skill |-> skill]
      ELSE
        LET isHard == contains(skill, "hard")
            isEx   == contains(skill, "extreme") \/ contains(skill, "limit")
            bare   == withoutDifficulty(skill)
            named  == IF bare = <<"spot2">> THEN <<"spot">> ELSE bare
            target == skillTarget(card, named)
        IN  IF target = 0 THEN NoResult
            ELSE [t |-> "result",
                  resultDesc |-> IF roll = 1 THEN <<"best">>
                                 ELSE IF roll > 95 THEN <<"worst">>
                                 ELSE compared(roll, realTarget(target, isHard, isEx)),
                  skill |-> named]

\* resultDesc.endsWith of the word for success (dice.ts 156)
isSuccess(resultDesc) == resultDesc # <<>> /\ resultDesc[1] \in {"le", "best"}

\* tryRollDiceEarlier taking the lack of a classification for a failed command: a faulty variant
tryRollDiceEarlierStrict(fullExp, ctx, dice) ==
  LET parsed == parseFullExp(fullExp)
      result == IF ctx.channel THEN decideResultEarlier(ctx.card, parsed[2], dice.total)
                ELSE NoResult
  IN  IF dice.throws \/ (ctx.channel /\ result = NoResult)
        THEN [null |-> TRUE, desc |-> <<>>, resultDesc |-> <<>>, notified |-> FALSE]
        ELSE [null |-> FALSE, desc |-> parsed[2], resultDesc |-> result.resultDesc,
              notified |-> isSuccess(result.resultDesc)]

(***************************************************************************)
(* DiceManager.tryRollDice of dice.ts 142-170.  dice is what new           *)
(* DiceRoll(exp) of the dice library does: [throws, total].  Yields whether *)
(* null is returned, the description and the classification of the reply,  *)
(* and whether the client was told of a success.                            *)
(***************************************************************************)
tryRollDiceEarlier(fullExp, ctx, dice) ==
  LET parsed == parseFullExp(fullExp)
      result == IF ctx.channel THEN decideResultEarlier(ctx.card, parsed[2], dice.total)
                ELSE NoResult
  IN  IF dice.throws
        THEN [null |-> TRUE, desc |-> <<>>, resultDesc |-> <<>>, notified |-> FALSE]
        ELSE [null |-> FALSE, desc |-> parsed[2], resultDesc |-> result.resultDesc,
              notified |-> isSuccess(result.resultDesc)]

(***************************************************************************)
(* The two caches are lru-cache stores: max entries, least recently used   *)
(* first in order.  set and get make a key the most recently used one, a   *)
(* set of a new key into a full store evicts the least recently used one.  *)
(* fetch keeps the promise of a fetchMethod call in flight as the key's    *)
(* value until it resolves, which is what lets a second fetch of the key   *)
(* find it; the promise holds a slot and is evicted like any value, and    *)
(* its result is then handed to those awaiting it but not stored.          *)
(***************************************************************************)
MsgCacheMax == 50

OpposedCacheMax == 50

EmptyCache == [order |-> <<>>, val |-> [k \in {} |-> None]]

lruHas(c, k) == k \in DOMAIN c.val

lruWithout(order, k) == SelectSeq(order, LAMBDA x : x # k)

\* the key a set of k evicts: <<key>>, or <<>> when there is room or k is present
lruEvictee(c, k, max) ==
  IF ~lruHas(c, k) /\ Len(c.order) = max THEN <<Head(c.order)>> ELSE <<>>

\* a store that never evicts: the keys ks are set and every entry is kept
lruAddUnbounded(c, ks, v, max) ==
  LET new == {ks[i] : i \in 1..Len(ks)}
  IN  [order |-> c.order \o ks,
       val   |-> [x \in DOMAIN c.val \cup new |-> IF x \in new THEN v ELSE c.val[x]]]

\* set of the keys ks, none of them present, to the value v, one after the other:
\* each goes to the most recently used end, and each set into a full store evicts
\* the least recently used entry first
lruAdd(c, ks, v, max) ==
  LET all  == c.order \o ks
      keep == IF Len(all) > max THEN SubSeq(all, Len(all) - max + 1, Len(all)) ELSE all
      new  == {ks[i] : i \in 1..Len(ks)}
  IN  [order |-> keep,
       val   |-> [x \in {keep[i] : i \in 1..Len(keep)} |-> IF x \in new THEN v ELSE c.val[x]]]

lruSet(c, k, v, max) ==
  IF lruHas(c, k)
    THEN [order |-> Append(lruWithout(c.order, k), k), val |-> [c.val EXCEPT ![k] = v]]
    ELSE lruAdd(c, <<k>>, v, max)

lruGet(c, k) ==
  IF lruHas(c, k) THEN [c EXCEPT !.order = Append(lruWithout(c.order, k), k)] ELSE c

lruDelete(c, k) ==
  [order |-> lruWithout(c.order, k), val |-> [x \in DOMAIN c.val \ {k} |-> c.val[x]]]

(***************************************************************************)
(* The messages of the channel and what the transport returns for them.    *)
(***************************************************************************)
Channel == <<"c", "1">>

WithInstruction == <<"m", "1">>

WithoutInstruction == <<"m", "2">>

TrackedPairs == {<<Channel, WithInstruction>>, <<Channel, WithoutInstruction>>}

\* the i-th of the other messages of the channel: a picture, no text
FillerMsg(i) == <<"f">> \o numToString(i)

\* data.message.content of messageApi.message(channelId, msgId)
MessageContent(channelId, msgId) ==
  IF msgId = WithInstruction
    THEN [t |-> "text", s |-> <<" ", "x", "hard", "spot", "luck", " ">>]
  ELSE IF msgId = WithoutInstruction
    THEN [t |-> "text", s |-> <<"x", "y">>]
  ELSE None

\* `${channelId}-${msgId}`
MakeKey(channelId, msgId) == channelId \o <<"-">> \o msgId

\* key.split('-')
RECURSIVE split(_)
split(key) ==
  LET dashes == {i \in 1..Len(key) : key[i] = "-"}
  IN  IF dashes = {} THEN <<key>>
      ELSE LET d == CHOOSE i \in dashes : \A j \in dashes : i <= j
           IN  <<SubSeq(key, 1, d - 1)>> \o split(SubSeq(key, d + 1, Len(key)))

\* const [channelId, msgId] = key.split('-')
RequestOf(key) ==
  LET parts == split(key)
  IN  <<parts[1], IF Len(parts) >= 2 THEN parts[2] ELSE <<>>>>

(***************************************************************************)
(* detectInstruction (dice.ts 571-581).  A text is a sequence of words;    *)
(* "spot", "luck" and "sc" stand for words of instRegex, "hard" and        *)
(* "extreme" for the difficulty words.                                     *)
(***************************************************************************)
SkillWords == {"spot", "luck", "sc"}

DifficultyWords == {"hard", "extreme"}

Undefined == [t |-> "undef", s |-> <<>>]

Null == [t |-> "null", s |-> <<>>]

FirstOf(text, words) ==
  LET hits == {i \in 1..Len(text) : text[i] \in words}
  IN  IF hits = {} THEN <<>> ELSE <<text[CHOOSE i \in hits : \A j \in hits : i <= j]>>

detectInstruction(text) ==
  IF FirstOf(text, SkillWords) = <<>> THEN Null
  ELSE [t |-> "str", s |-> FirstOf(text, DifficultyWords) \o FirstOf(text, SkillWords)]

\* the value fetchMethod resolves to (dice.ts 359-360)
NewEntry(content) ==
  LET text == IF content.t = "text" THEN trim(content.s) ELSE <<>>
  IN  [text |-> text, instruction |-> IF text # <<>> THEN Undefined ELSE Null, scans |-> 0]

(***************************************************************************)
(* createDiceRoll (../dice/utils, not part of the sources at hand): the    *)
(* evaluation eval of the command text either throws or yields a roll      *)
(* with its flags.                                                         *)
(***************************************************************************)
NoRoll == [t |-> "null", id |-> 0, standard |-> FALSE, hidden |-> FALSE,
           eligible |-> FALSE, opposed |-> 0]

Evals ==
  {e \in [t : {"throw", "roll"}, standard : BOOLEAN, hidden : BOOLEAN,
          eligible : BOOLEAN, needUpdate : BOOLEAN] :
     /\ (e.t = "throw" => ~e.standard /\ ~e.needUpdate)
     /\ (~e.standard => ~e.hidden /\ ~e.eligible)}

\* what the command of a reaction, d% and a skill, evaluates to: a plain roll
\* (dice.ts 468: a reaction rolls no hidden dice)
ReactionEvals == {e \in Evals : e.t = "roll" /\ e.standard /\ ~e.hidden}

createDiceRoll(fullExp, opposedRoll, eval, id) ==
  IF eval.t = "throw" THEN [threw |-> TRUE, roller |-> NoRoll]
  ELSE [threw |-> FALSE,
        roller |-> [t |-> "roll", id |-> id, standard |-> eval.standard,
                    hidden |-> eval.hidden, eligible |-> eval.eligible,
                    opposed |-> opposedRoll.id]]

(***************************************************************************)
(* tryRollDice (dice.ts 487-516).  ctx: [channel, hasCard, reply]; reply   *)
(* is 0 when the command is no reply.  Yields the roll (NoRoll for null),  *)
(* the opposed-roll cache after the lookup, whether the card was saved and *)
(* the opposed roll handed to createDiceRoll.                              *)
(***************************************************************************)
\* opposedRollOf without the lookup: a faulty variant
opposedRollSkipped(replyMsgId) == NoRoll

\* opposedRollOf reading a store that never evicts: a faulty variant
opposedRollKept(replyMsgId) ==
  IF replyMsgId \in DOMAIN posted /\ posted[replyMsgId].at > 0
    THEN posted[replyMsgId].roll ELSE NoRoll

\* const opposedRoll = replyMsgId ? this.opposedRollCache.get(replyMsgId) : null
opposedRollOf(replyMsgId) ==
  IF replyMsgId # 0 /\ lruHas(opposedRollCache, replyMsgId)
    THEN opposedRollCache.val[replyMsgId] ELSE NoRoll

\* tryRollDice saving the card before the roll is made: a faulty variant
tryRollDiceSavingFirst(fullExp, ctx, eval) ==
  LET cocCard     == ctx.channel /\ ctx.hasCard
      opposedRoll == opposedRollOf(ctx.reply)
      cache       == IF ctx.reply # 0 THEN lruGet(opposedRollCache, ctx.reply)
                                      ELSE opposedRollCache
      made        == createDiceRoll(fullExp, opposedRoll, eval, serial.roll + 1)
  IN  [roll    |-> made.roller,
       cache   |-> cache,
       saved   |-> cocCard,
       opposed |-> opposedRoll]

tryRollDice(fullExp, ctx, eval) ==
  LET cocCard     == ctx.channel /\ ctx.hasCard
      opposedRoll == opposedRollOf(ctx.reply)
      cache       == IF ctx.reply # 0 THEN lruGet(opposedRollCache, ctx.reply)
                                      ELSE opposedRollCache
      made        == createDiceRoll(fullExp, opposedRoll, eval, serial.roll + 1)
  IN  [roll    |-> made.roller,
       cache   |-> cache,
       saved   |-> ~made.threw /\ cocCard /\ eval.needUpdate,
       opposed |-> opposedRoll]

NoCall == [kind |-> "none", marked |-> FALSE, reached |-> FALSE, fullExp |-> <<>>,
           reply |-> 0, since |-> -1, untouched |-> -1, threw |-> FALSE,
           opposed |-> NoRoll, roll |-> NoRoll,
           saved |-> FALSE, toChannel |-> "none", toUser |-> "none"]

(***************************************************************************)
(* Bounds on the events the environment delivers.                          *)
(***************************************************************************)
MaxReactions == 2

MaxGuild == 2

MaxDirect == 1

\* the runs of reactions to other messages, and the lengths a run may have
MaxFill == 2

RunLengths == {1, MsgCacheMax - 1}

Bump(f) == [events EXCEPT ![f] = @ + 1]

Drop(fn, k) == [x \in DOMAIN fn \ {k} |-> fn[x]]

\* the fetches in flight, with the one whose promise a set of key evicts aborted
AbortEvicted(cache, key, max) ==
  LET out == lruEvictee(cache, key, max)
  IN  [f \in DOMAIN fetches |->
         IF out # <<>> /\ cache.val[out[1]] = [t |-> "fetch", id |-> f]
           THEN [fetches[f] EXCEPT !.aborted = TRUE]
           ELSE fetches[f]]

\* msgCache.fetch(key) (dice.ts 459): the key holds an entry, or the promise of a
\* fetch in flight, or nothing
\* fetchState taking a fetch in flight for a miss: a faulty variant
fetchStateNoDedup(cache, key) ==
  IF lruHas(cache, key) /\ cache.val[key].t = "entry" THEN "hit" ELSE "miss"

fetchState(cache, key) ==
  IF ~lruHas(cache, key) THEN "miss"
  ELSE IF cache.val[key].t = "entry" THEN "hit"
  ELSE "inflight"

\* typeof cacheMsg.instruction === 'undefined' (dice.ts 461)
\* needsScan ignoring the memo: a faulty variant
needsScanAlways(entry) == TRUE

needsScan(entry) == entry.instruction = Undefined

(***************************************************************************)
(* handleGuildReactions up to its await of msgCache.fetch (dice.ts         *)
(* 453-459), with the fetchMethod call a miss starts (dice.ts 356-358).    *)
(* An event is handled once the continuations that are ready have run.     *)
(***************************************************************************)
ReactionAdd(pair) ==
  LET key == MakeKey(pair[1], pair[2])
      f   == serial.fetch + 1
      req == RequestOf(key)
  IN  /\ ready = <<>>
      /\ events.react < MaxReactions
      /\ events' = Bump("react")
      /\ IF fetchState(msgCache, key) = "hit"
           THEN /\ msgCache' = lruGet(msgCache, key)
                /\ ready' = Append(ready, [o |-> msgCache.val[key].id, pair |-> pair,
                                           hit |-> TRUE])
                /\ UNCHANGED <<fetches, apiCalls, serial>>
         ELSE IF fetchState(msgCache, key) = "inflight"
           THEN /\ fetches' = [fetches EXCEPT ![msgCache.val[key].id].waiters = Append(@, pair)]
                /\ UNCHANGED <<msgCache, ready, apiCalls, serial>>
         ELSE /\ msgCache' = lruSet(msgCache, key, [t |-> "fetch", id |-> f], MsgCacheMax)
              /\ fetches' = AbortEvicted(msgCache, key, MsgCacheMax)
                              @@ (f :> [key |-> key, req |-> req, aborted |-> FALSE,
                                        waiters |-> <<pair>>])
              /\ apiCalls' = IF req \in DOMAIN apiCalls
                               THEN [apiCalls EXCEPT ![req] = @ + 1]
                               ELSE apiCalls @@ (req :> 1)
              /\ serial' = [serial EXCEPT !.fetch = f]
              /\ UNCHANGED ready
      /\ UNCHANGED <<opposedRollCache, objs, posts, apiDone, detectRuns, last, posted>>
      /\ UNCHANGED pureVars

(***************************************************************************)
(* The transport answers fetch f (dice.ts 358-360): the entry is stored    *)
(* unless the promise was evicted, and those awaiting it continue.         *)
(***************************************************************************)
FetchComplete(f) ==
  LET fe == fetches[f]
  IN  /\ ready = <<>>
      /\ objs' = objs @@ (f :> NewEntry(MessageContent(fe.req[1], fe.req[2])))
      /\ msgCache' = IF fe.aborted THEN msgCache
                     ELSE lruSet(msgCache, fe.key, [t |-> "entry", id |-> f], MsgCacheMax)
      /\ ready' = [i \in 1..Len(fe.waiters) |-> [o |-> f, pair |-> fe.waiters[i], hit |-> FALSE]]
      /\ fetches' = Drop(fetches, f)
      /\ apiDone' = IF fe.req \in DOMAIN apiDone
                      THEN [apiDone EXCEPT ![fe.req] = @ + 1] ELSE apiDone
      /\ UNCHANGED <<opposedRollCache, posts, apiCalls, detectRuns, serial, last,
                     events, posted>>
      /\ UNCHANGED pureVars

(***************************************************************************)
(* The transport fails fetch f: the key is deleted when it still holds     *)
(* the promise, and the await of each handler awaiting it throws: dice.ts  *)
(* 459 has no catch, and neither has the listener that calls the handler   *)
(* (dice.ts 548), so the promise of the handler is rejected unhandled.     *)
(***************************************************************************)
FetchFail(f) ==
  LET fe == fetches[f]
  IN  /\ ready = <<>>
      /\ msgCache' = IF lruHas(msgCache, fe.key)
                        /\ msgCache.val[fe.key] = [t |-> "fetch", id |-> f]
                       THEN lruDelete(msgCache, fe.key) ELSE msgCache
      /\ fetches' = Drop(fetches, f)
      /\ events' = [events EXCEPT !.unhandled = @ + Len(fe.waiters)]
      /\ UNCHANGED <<opposedRollCache, objs, ready, posts, apiCalls, apiDone, detectRuns,
                     serial, last, posted>>
      /\ UNCHANGED pureVars

(***************************************************************************)
(* handleGuildReactions from its await of the fetch to its await of        *)
(* channel.sendMessage (dice.ts 460-471).                                  *)
(***************************************************************************)
ResumeReaction(hasCard, eval, channelKnown) ==
  /\ ready # <<>>
  /\ LET h     == Head(ready)
         entry == objs[h.o]
         scan  == needsScan(entry)
         inst  == IF scan THEN detectInstruction(entry.text) ELSE entry.instruction
         r     == tryRollDice(<<"d", "%", " ">> \o inst.s,
                              [channel |-> TRUE, hasCard |-> hasCard, reply |-> 0], eval)
     IN  /\ ready' = Tail(ready)
         /\ IF entry.instruction = Null
              THEN UNCHANGED <<objs, detectRuns, opposedRollCache, serial, last, posts>>
              ELSE /\ objs' = IF scan
                                THEN [objs EXCEPT ![h.o] = [@ EXCEPT !.instruction = inst,
                                                                     !.scans = @ + 1]]
                                ELSE objs
                   /\ detectRuns' = IF scan /\ h.pair \in DOMAIN detectRuns
                                      THEN [detectRuns EXCEPT ![h.pair] = @ + 1]
                                      ELSE detectRuns
                   /\ IF inst = Null
                        THEN UNCHANGED <<opposedRollCache, serial, last, posts>>
                        ELSE /\ opposedRollCache' = r.cache
                             /\ serial' = [serial EXCEPT !.roll = @ + 1]
                             /\ LET sends == r.roll # NoRoll /\ channelKnown
                                IN  /\ posts' = IF sends
                                                  THEN posts \cup {[roll |-> r.roll, from |-> "reaction"]}
                                                  ELSE posts
                                    /\ last' = [kind |-> "reaction", marked |-> FALSE,
                                                reached |-> TRUE,
                                                fullExp |-> <<"d", "%", " ">> \o inst.s,
                                                reply |-> 0, since |-> -1,
                                                untouched |-> -1, threw |-> eval.t = "throw",
                                                opposed |-> r.opposed, roll |-> r.roll,
                                                saved |-> r.saved,
                                                toChannel |-> IF sends THEN "output" ELSE "none",
                                                toUser |-> "none"]
  /\ UNCHANGED <<msgCache, fetches, apiCalls, apiDone, events, posted>>
  /\ UNCHANGED pureVars

(***************************************************************************)
(* The handlers after their await of channel.sendMessage (dice.ts 404-408  *)
(* and 471-475): replyMsg is the posted message, or nothing when the post  *)
(* failed.  The stub of a hidden roll (dice.ts 399) is sent without await: *)
(* its answer gives the stub its message id and resumes no handler.        *)
(***************************************************************************)
\* CacheOpposedRoll without the test of the roll: a faulty variant
CacheOpposedRollAny(replyMsg, roll) ==
  IF replyMsg # 0
    THEN lruSet(opposedRollCache, replyMsg, roll, OpposedCacheMax)
    ELSE opposedRollCache

\* CacheOpposedRoll keyed by the newest result message of the channel instead of
\* the handler's own replyMsg: a faulty variant
CacheOpposedRollNewest(replyMsg, roll) ==
  IF replyMsg # 0 /\ roll.standard /\ roll.eligible
    THEN lruSet(opposedRollCache, IF serial.msg > 0 THEN serial.msg ELSE replyMsg,
                roll, OpposedCacheMax)
    ELSE opposedRollCache

CacheOpposedRoll(replyMsg, roll) ==
  IF replyMsg # 0 /\ roll.standard /\ roll.eligible
    THEN lruSet(opposedRollCache, replyMsg, roll, OpposedCacheMax)
    ELSE opposedRollCache

PostComplete(p) ==
  LET id == serial.msg + 1
  IN  /\ ready = <<>>
      /\ p \in posts
      /\ posts' = posts \ {p}
      /\ opposedRollCache' = IF p.from = "stub" THEN opposedRollCache
                             ELSE CacheOpposedRoll(id, p.roll)
      /\ serial' = [serial EXCEPT !.msg = id,
                                  !.sets = IF opposedRollCache' # opposedRollCache
                                             THEN @ + 1 ELSE @]
      /\ posted' = posted @@ (id :> [roll |-> p.roll,
                                     at |-> IF opposedRollCache' # opposedRollCache
                                              THEN serial.sets + 1 ELSE -1,
                                     touched |-> serial.sets + 1,
                                     stub |-> p.from = "stub"])
      /\ UNCHANGED <<msgCache, fetches, objs, ready, apiCalls, apiDone, detectRuns, last, events>>
      /\ UNCHANGED pureVars

PostFail(p) ==
  /\ ready = <<>>
  /\ p \in posts
  /\ posts' = posts \ {p}
  /\ opposedRollCache' = IF p.from = "stub" THEN opposedRollCache
                         ELSE CacheOpposedRoll(0, p.roll)
  /\ UNCHANGED <<msgCache, fetches, objs, ready, apiCalls, apiDone, detectRuns, serial, last,
                 events, posted>>
  /\ UNCHANGED pureVars

(***************************************************************************)
(* Reactions to n fresh messages without text, each fetch answered before  *)
(* the next event: n times handleGuildReactions with a miss, the entry     *)
(* (instruction null) stored, the return of dice.ts 460.  A promise the    *)
(* run evicts is aborted.                                                  *)
(***************************************************************************)
FillerKeys(from, n) == [i \in 1..n |-> MakeKey(Channel, FillerMsg(from + i - 1))]

FillerReactions(n) ==
  /\ ready = <<>>
  /\ events.fill < MaxFill
  /\ events' = [events EXCEPT !.fill = @ + 1, !.filled = @ + n]
  /\ msgCache' = lruAdd(msgCache, FillerKeys(events.filled + 1, n),
                        [t |-> "entry", id |-> 0], MsgCacheMax)
  /\ fetches' = [f \in DOMAIN fetches |->
                   IF /\ lruHas(msgCache, fetches[f].key)
                      /\ msgCache.val[fetches[f].key] = [t |-> "fetch", id |-> f]
                      /\ ~lruHas(msgCache', fetches[f].key)
                     THEN [fetches[f] EXCEPT !.aborted = TRUE]
                     ELSE fetches[f]]
  /\ UNCHANGED <<opposedRollCache, objs, ready, posts, apiCalls, apiDone, detectRuns,
                 serial, last, posted>>
  /\ UNCHANGED pureVars

(***************************************************************************)
(* handleGuildMessage up to its await of channel.sendMessage (dice.ts      *)
(* 370-404).  The mention of the bot, <@!id>, is one character here, and   *)
(* so is each of the entities &lt; &gt; &amp;.                             *)
(***************************************************************************)
BotMention == "<@!bot>"

FullStop == "U3002"

\* unescapeHTML (dice.ts 584-592)
unescapeHTML(str) ==
  [i \in 1..Len(str) |->
     IF str[i] = "&lt;" THEN "<"
     ELSE IF str[i] = "&gt;" THEN ">"
     ELSE IF str[i] = "&amp;" THEN "&"
     ELSE str[i]]

\* the command text handed to tryRollDice for the trimmed content (dice.ts 376-387)
commandText(content) ==
  LET unmentioned == IF startsWith(content, <<BotMention>>)
                       THEN trim(Tail(content)) ELSE content
      unmarked    == IF startsWith(unmentioned, <<".">>) \/ startsWith(unmentioned, <<FullStop>>)
                       THEN trim(Tail(unmentioned)) ELSE unmentioned
  IN  unescapeHTML(unmarked)

\* isHiddenRoll taking no roll for a hidden one: a faulty variant
isHiddenRollNever(roll) == FALSE

\* isHiddenRoll taking a roll eligible for an opposed roll for a public one: a
\* faulty variant
isHiddenRollUnlessEligible(roll) == roll.standard /\ roll.hidden /\ ~roll.eligible

\* roll instanceof StandardDiceRoll && roll.hidden (dice.ts 397)
isHiddenRoll(roll) == roll.standard /\ roll.hidden

\* whether the trimmed content begins with the mention of the bot or a command marker
Marked(content) ==
  \/ startsWith(content, <<BotMention>>)
  \/ startsWith(content, <<".">>)
  \/ startsWith(content, <<FullStop>>)

\* how many keys were set in the opposed-roll cache after the key reply was
SetsSince(reply) ==
  IF reply \in DOMAIN posted /\ posted[reply].at > 0
    THEN serial.sets - posted[reply].at ELSE -1

\* ... and after the key reply was last set or looked up
SetsSinceTouched(reply) ==
  IF reply \in DOMAIN posted /\ posted[reply].at > 0
    THEN serial.sets - posted[reply].touched ELSE -1

GuildMessage(content, reply, hasCard, eval, channelKnown, userKnown) ==
  /\ ready = <<>>
  /\ events.guild < MaxGuild
  /\ events' = Bump("guild")
  /\ IF trim(content) = <<>>
       THEN /\ last' = [NoCall EXCEPT !.kind = "guild"]
            /\ UNCHANGED <<opposedRollCache, serial, posts, posted>>
       ELSE LET fullExp == commandText(trim(content))
                r       == tryRollDice(fullExp, [channel |-> TRUE, hasCard |-> hasCard,
                                                 reply |-> reply], eval)
                found   == r.roll # NoRoll /\ channelKnown
                hidden  == found /\ isHiddenRoll(r.roll)
            IN  /\ opposedRollCache' = r.cache
                /\ serial' = [serial EXCEPT !.roll = @ + 1]
                /\ posts' = IF found
                              THEN posts \cup {[roll |-> r.roll,
                                                from |-> IF hidden THEN "stub" ELSE "guild"]}
                              ELSE posts
                /\ posted' = IF reply \in DOMAIN posted /\ r.opposed # NoRoll
                               THEN [posted EXCEPT ![reply].touched = serial.sets]
                               ELSE posted
                /\ last' = [kind |-> "guild", marked |-> Marked(trim(content)),
                            reached |-> TRUE,
                            fullExp |-> fullExp, reply |-> reply,
                            since |-> SetsSince(reply),
                            untouched |-> SetsSinceTouched(reply),
                            threw |-> eval.t = "throw",
                            opposed |-> r.opposed, roll |-> r.roll, saved |-> r.saved,
                            toChannel |-> IF hidden THEN "stub"
                                          ELSE IF found THEN "output" ELSE "none",
                            toUser |-> IF hidden /\ userKnown THEN "output" ELSE "none"]
  /\ UNCHANGED <<msgCache, fetches, objs, ready, apiCalls, apiDone, detectRuns>>
  /\ UNCHANGED pureVars

(***************************************************************************)
(* handleDirectMessage (dice.ts 416-448).  The try block either sends the  *)
(* output of the roll to the user or throws; the catch block sends the     *)
(* fallback reply to the user, if the user is found.                       *)
(***************************************************************************)
\* directTry throwing nothing when the command is not recognised: a faulty variant
directTrySilent(content, eval, userKnown) ==
  LET marked  == startsWith(content, <<".">>) \/ startsWith(content, <<FullStop>>)
      fullExp == IF marked THEN unescapeHTML(trim(Tail(content))) ELSE <<>>
      r       == tryRollDice(fullExp, [channel |-> FALSE, hasCard |-> FALSE, reply |-> 0], eval)
  IN  IF content = <<>> \/ fullExp = <<>> \/ ~userKnown
        THEN [reached |-> FALSE, fullExp |-> fullExp, roll |-> NoRoll, saved |-> FALSE,
              sent |-> FALSE, thrown |-> TRUE]
        ELSE [reached |-> TRUE, fullExp |-> fullExp, roll |-> r.roll, saved |-> r.saved,
              sent |-> r.roll # NoRoll, thrown |-> FALSE]

\* the try block, for the trimmed content (dice.ts 418-440)
directTry(content, eval, userKnown) ==
  LET marked  == startsWith(content, <<".">>) \/ startsWith(content, <<FullStop>>)
      fullExp == IF marked THEN unescapeHTML(trim(Tail(content))) ELSE <<>>
      r       == tryRollDice(fullExp, [channel |-> FALSE, hasCard |-> FALSE, reply |-> 0], eval)
  IN  IF content = <<>> \/ fullExp = <<>> \/ ~userKnown
        THEN [reached |-> FALSE, fullExp |-> fullExp, roll |-> NoRoll, saved |-> FALSE,
              sent |-> FALSE, thrown |-> TRUE]
        ELSE [reached |-> TRUE, fullExp |-> fullExp, roll |-> r.roll, saved |-> r.saved,
              sent |-> r.roll # NoRoll, thrown |-> r.roll = NoRoll]

\* what the user has been sent: the output, the fallback reply, both or nothing
UserGets(output, fallback) ==
  IF output /\ fallback THEN "both"
  ELSE IF output THEN "output"
  ELSE IF fallback THEN "fallback"
  ELSE "none"

DirectMessage(content, eval, userKnown) ==
  LET t == directTry(trim(content), eval, userKnown)
  IN  /\ ready = <<>>
      /\ events.direct < MaxDirect
      /\ events' = Bump("direct")
      /\ serial' = IF t.reached THEN [serial EXCEPT !.roll = @ + 1] ELSE serial
      /\ last' = [kind |-> IF userKnown THEN "direct" ELSE "directUnknown",
                  marked |-> Marked(trim(content)),
                  reached |-> t.reached, fullExp |-> t.fullExp, reply |-> 0,
                  since |-> -1, untouched |-> -1,
                  threw |-> t.reached /\ eval.t = "throw",
                  opposed |-> NoRoll, roll |-> t.roll, saved |-> t.saved,
                  toChannel |-> "none",
                  toUser |-> UserGets(t.sent, t.thrown /\ userKnown)]
      /\ UNCHANGED <<msgCache, opposedRollCache, fetches, objs, ready, posts, apiCalls,
                     apiDone, detectRuns, posted>>
      /\ UNCHANGED pureVars

DirectContents ==
  { <<>>,
    <<" ">>,
    <<".", " ">>,
    <<".", "d", "&gt;", "5">>,
    <<FullStop, " ", "d">>,
    <<BotMention, " ", ".", "d">>,
    <<"d">> }

GuildContents ==
  { <<" ">>,
    <<".", " ", "d", " ">>,
    <<FullStop, "d">>,
    <<BotMention, " ", ".", "d", "&lt;", "5">>,
    <<BotMention, " ", "d">>,
    <<"d">> }

(***************************************************************************)
(* n commands of other users, each a skill check whose result is posted    *)
(* before the next event: n times handleGuildMessage with the roll cached  *)
(* under the id of its result message (dice.ts 404-408).                   *)
(***************************************************************************)
FillerRoll == [t |-> "roll", id |-> -1, standard |-> TRUE, hidden |-> FALSE,
               eligible |-> TRUE, opposed |-> 0]

FillerGuildRolls(n) ==
  /\ ready = <<>>
  /\ events.fill < MaxFill
  /\ events' = [events EXCEPT !.fill = @ + 1, !.filled = @ + n]
  /\ opposedRollCache' = lruAdd(opposedRollCache, [i \in 1..n |-> -(events.filled + i)],
                                FillerRoll, OpposedCacheMax)
  /\ serial' = [serial EXCEPT !.sets = @ + n]
  /\ UNCHANGED <<msgCache, fetches, objs, ready, posts, apiCalls, apiDone, detectRuns,
                 last, posted>>
  /\ UNCHANGED pureVars

InitMachine ==
  /\ msgCache = EmptyCache
  /\ opposedRollCache = EmptyCache
  /\ fetches = [f \in {} |-> None]
  /\ objs = (0 :> NewEntry(None))
  /\ ready = <<>>
  /\ posts = {}
  /\ apiCalls = [p \in TrackedPairs |-> 0]
  /\ apiDone = [p \in TrackedPairs |-> 0]
  /\ detectRuns = [p \in TrackedPairs |-> 0]
  /\ serial = [fetch |-> 0, roll |-> 0, msg |-> 0, sets |-> 0]
  /\ last = NoCall
  /\ events = [react |-> 0, guild |-> 0, direct |-> 0, fill |-> 0, filled |-> 0,
               unhandled |-> 0]
  /\ posted = [m \in {} |-> None]

InitIdle == pc = "idle" /\ arg = None /\ ret = None

(***************************************************************************)
(* The reactions of a busy channel: reactions to one of the two messages   *)
(* with text among runs of reactions to other messages.                    *)
(***************************************************************************)
InitReact == InitIdle /\ InitMachine

NextReact ==
  \/ \E pair \in TrackedPairs :
       /\ \A q \in TrackedPairs \ {pair} : apiCalls[q] = 0
       /\ ReactionAdd(pair)
  \/ \E f \in DOMAIN fetches : FetchComplete(f)
  \/ \E f \in DOMAIN fetches : FetchFail(f)
  \/ \E hasCard \in BOOLEAN, eval \in ReactionEvals, channelKnown \in BOOLEAN :
       ResumeReaction(hasCard, eval, channelKnown)
  \/ \E p \in posts : PostComplete(p)
  \/ \E p \in posts : PostFail(p)
  \/ \E n \in RunLengths : FillerReactions(n)

SpecReact == InitReact /\ [][NextReact]_vars

(***************************************************************************)
(* Both caches under load: the reactions of SpecReact, among runs of       *)
(* commands of other users whose rolls are cached.                         *)
(***************************************************************************)
NextCaches ==
  \/ NextReact
  \/ \E n \in RunLengths : FillerGuildRolls(n)

SpecCaches == InitReact /\ [][NextCaches]_vars

(***************************************************************************)
(* The commands of a busy channel: commands and reactions among runs of    *)
(* commands of other users.  A command may be a reply to any result        *)
(* message posted so far.                                                  *)
(***************************************************************************)
Init == InitIdle /\ InitMachine

Next ==
  \/ \E content \in GuildContents, reply \in 0..serial.msg, eval \in Evals,
        channelKnown \in BOOLEAN :
       \E hasCard \in (IF eval.needUpdate THEN BOOLEAN ELSE {TRUE}),
          userKnown \in (IF eval.hidden /\ channelKnown THEN BOOLEAN ELSE {TRUE}) :
         GuildMessage(content, reply, hasCard, eval, channelKnown, userKnown)
  \/ \E n \in RunLengths : FillerGuildRolls(n)
  \/ \E p \in posts : PostComplete(p)
  \/ \E p \in posts : PostFail(p)

Spec == Init /\ [][Next]_vars

(***************************************************************************)
(* Commands and reactions handled concurrently: each handler stops at its  *)
(* await of the fetch or of the post, and the fetches and posts of all     *)
(* handlers complete in any order.                                         *)
(***************************************************************************)
\* the commands that post their result to the channel and await the post: plain
\* rolls that change no card, eligible for an opposed roll or not
PostedEvals == {e \in ReactionEvals : ~e.needUpdate}

NextInterleave ==
  \/ ReactionAdd(<<Channel, WithInstruction>>)
  \/ \E f \in DOMAIN fetches : FetchComplete(f)
  \/ \E f \in DOMAIN fetches : FetchFail(f)
  \/ \E eval \in PostedEvals : ResumeReaction(TRUE, eval, TRUE)
  \/ \E reply \in 0..serial.msg, eval \in PostedEvals :
       GuildMessage(<<BotMention, " ", "d">>, reply, TRUE, eval, TRUE, TRUE)
  \/ \E p \in posts : PostComplete(p)
  \/ \E p \in posts : PostFail(p)

SpecInterleave == Init /\ [][NextInterleave]_vars

(***************************************************************************)
(* Direct messages to the bot, among the commands of a channel.            *)
(***************************************************************************)
NextDirect ==
  \/ \E content \in DirectContents, eval \in Evals, userKnown \in BOOLEAN :
       DirectMessage(content, eval, userKnown)
  \/ \E content \in GuildContents, reply \in 0..serial.msg, eval \in Evals,
        channelKnown \in BOOLEAN :
       \E hasCard \in (IF eval.needUpdate THEN BOOLEAN ELSE {TRUE}),
          userKnown \in (IF eval.hidden /\ channelKnown THEN BOOLEAN ELSE {TRUE}) :
         GuildMessage(content, reply, hasCard, eval, channelKnown, userKnown)
  \/ \E p \in posts : PostComplete(p)
  \/ \E p \in posts : PostFail(p)

SpecDirect == Init /\ [][NextDirect]_vars

(***************************************************************************)
(* Bounds of the pure-function checks.                                     *)
(***************************************************************************)
MaxValue == 100

Spread == 5

MaxTok == 4

TokChars == {"r", "b", "p", "d", "a", "w", "0", "2", "9"}

Descs == {<<>>, <<" ">>, <<" ", "U4FA6", "U5BDF">>, <<"U4FA6", "U5BDF">>}

RECURSIVE SeqsUpTo(_, _)
SeqsUpTo(S, n) ==
  IF n = 0 THEN {<<>>}
  ELSE LET shorter == SeqsUpTo(S, n - 1)
       IN  shorter \cup {Append(s, c) : s \in {x \in shorter : Len(x) = n - 1}, c \in S}

ParseInputs == {t \o d : t \in SeqsUpTo(TokChars, MaxTok), d \in Descs}

\* ratings on both sides of the threshold 50 of decideResult
CardEntries == [baseValue : (50 - Spread)..(50 + Spread), value : 0..MaxValue]

(***************************************************************************)
(* decideResult applied to every roll and card entry of the bounds.        *)
(***************************************************************************)
InitDecide ==
  /\ InitMachine
  /\ pc = "call"
  /\ arg \in [cardEntry : CardEntries, roll : 1..100]
  /\ ret = None

Decide ==
  /\ pc = "call"
  /\ ret' = decideResult(arg.cardEntry, arg.roll)
  /\ pc' = "done"
  /\ UNCHANGED arg
  /\ UNCHANGED machineVars

NextDecide == Decide

SpecDecide == InitDecide /\ [][NextDecide]_vars

(***************************************************************************)
(* parseFullExp applied to every command text of the bounds.               *)
(***************************************************************************)
InitParse ==
  /\ InitMachine
  /\ pc = "call"
  /\ arg \in ParseInputs
  /\ ret = None

Parse ==
  /\ pc = "call"
  /\ ret' = parseFullExp(arg)
  /\ pc' = "done"
  /\ UNCHANGED arg
  /\ UNCHANGED machineVars

NextParse == Parse

SpecParse == InitParse /\ [][NextParse]_vars

(***************************************************************************)
(* The key of the instruction cache: the key handleGuildReactions builds   *)
(* for a reaction (dice.ts 459) and the request fetchMethod takes from it  *)
(* (dice.ts 357-358).  channel_id and target.id are strings of the         *)
(* transport: any non-empty text of a digit, a letter and '-'.             *)
(***************************************************************************)
MaxId == 2

IdChars == {"1", "a", "-"}

Ids == SeqsUpTo(IdChars, MaxId) \ {<<>>}

KeyInputs == Ids \X Ids

InitKey ==
  /\ InitMachine
  /\ pc = "call"
  /\ arg \in KeyInputs
  /\ ret = None

FetchKey ==
  /\ pc = "call"
  /\ ret' = [key |-> MakeKey(arg[1], arg[2]),
             req |-> RequestOf(MakeKey(arg[1], arg[2]))]
  /\ pc' = "done"
  /\ UNCHANGED arg
  /\ UNCHANGED machineVars

NextKey == FetchKey

SpecKey == InitKey /\ [][NextKey]_vars

(***************************************************************************)
(* The earlier tryRollDice applied to the skill checks of the bounds: the  *)
(* command d, a difficulty and a skill name, by a user with or without a   *)
(* card, in a channel or not, with every total of the percentile die.      *)
(***************************************************************************)
Cards ==
  { NoCard,
    [t |-> "card", san |-> 60, luck |-> 45, props |-> ("int" :> 70),
     skills |-> ("spot" :> 33 @@ "dodge" :> 96)],
    [t |-> "card", san |-> 7, luck |-> 99, props |-> ("int" :> 1),
     skills |-> ("spot" :> 50)] }

Difficulties == {<<>>, <<"hard">>, <<"extreme">>, <<"limit">>, <<"hard", "extreme">>}

SkillNames == {"", "sanity", "sc", "SC", "luck", "idea", "int", "spot", "spot2", "dodge", "climb"}

CheckInputs ==
  {a \in [channel : BOOLEAN, card : Cards, difficulty : Difficulties, skill : SkillNames,
          dice : [throws : BOOLEAN, total : 1..100]] :
     a.dice.throws => a.dice.total = 1}

\* the command text of a check: 'd', and the difficulty and the skill after a space
CommandOf(a) ==
  IF a.skill = "" /\ a.difficulty = <<>> THEN <<"d">>
  ELSE <<"d", " ">> \o a.difficulty \o (IF a.skill = "" THEN <<>> ELSE <<a.skill>>)

InitCheck ==
  /\ InitMachine
  /\ pc = "call"
  /\ arg \in CheckInputs
  /\ ret = None

Check ==
  /\ pc = "call"
  /\ ret' = tryRollDiceEarlier(CommandOf(arg), [channel |-> arg.channel, card |-> arg.card],
                               arg.dice)
  /\ pc' = "done"
  /\ UNCHANGED arg
  /\ UNCHANGED machineVars

NextCheck == Check

SpecCheck == InitCheck /\ [][NextCheck]_vars

(***************************************************************************)
(* Claims about the instruction cache, checked under SpecReact.            *)
(***************************************************************************)
KeyOf(pair) == pair[1] \o <<"-">> \o pair[2]

Cached(cache, key) == \E i \in 1..Len(cache.order) : cache.order[i] = key

InFlight(pair) == {f \in DOMAIN fetches : fetches[f].req = pair}

(***************************************************************************)
(* C1: at every moment at most one fetch of a message is in flight:        *)
(* reactions handled while the first fetch is pending wait on it and no    *)
(* second call of the message API is issued for the key.                   *)
(***************************************************************************)
C1_SingleFlight == \A pair \in TrackedPairs : Cardinality(InFlight(pair)) <= 1

(***************************************************************************)
(* C2, as claimed: once a message has been fetched, no later reaction to   *)
(* it calls the message API again, whatever reactions other messages get.  *)
(***************************************************************************)
C2_NeverFetchedAgain ==
  [][\A pair \in TrackedPairs :
       apiDone[pair] > 0 => apiCalls'[pair] = apiCalls[pair]]_vars

(***************************************************************************)
(* C2, amended: while the instruction cache holds the key of a message (a  *)
(* fetch in flight or the entry fetched), no reaction calls the message    *)
(* API for it.                                                             *)
(***************************************************************************)
C2_NoFetchWhileCached ==
  [][\A pair \in TrackedPairs :
       Cached(msgCache, KeyOf(pair)) => apiCalls'[pair] = apiCalls[pair]]_vars

\* a second reaction, after 49 other messages, finds the entry fetched for the first
C2_Witness ==
  \E pair \in TrackedPairs :
    /\ apiCalls[pair] = 1
    /\ apiDone[pair] = 1
    /\ events.react = 2
    /\ events.filled >= MsgCacheMax - 1
    /\ ready # <<>>
    /\ Head(ready).hit
    /\ Head(ready).pair = pair

(***************************************************************************)
(* C3, as claimed: detectInstruction runs at most once per message,        *)
(* however many reactions the message gets.                                *)
(***************************************************************************)
C3_ScannedOncePerMessage == \A pair \in TrackedPairs : detectRuns[pair] <= 1

(***************************************************************************)
(* C3, amended: detectInstruction runs at most once per entry fetched: an  *)
(* entry's instruction leaves unresolved once, to null or to a text, and   *)
(* never changes afterwards; an entry with a null instruction is not       *)
(* scanned again.                                                          *)
(***************************************************************************)
C3_ScannedOncePerEntry ==
  [][\A o \in DOMAIN objs :
       /\ objs'[o].scans <= 1
       /\ (objs[o].instruction # Undefined => objs'[o] = objs[o])
       /\ (objs'[o].scans > objs[o].scans => objs'[o].instruction # Undefined)]_vars

\* two reactions have rolled from one scan of the message
C3_Witness ==
  /\ serial.roll = 2
  /\ detectRuns[<<Channel, WithInstruction>>] = 1
  /\ \E o \in DOMAIN objs : objs[o].scans = 1 /\ objs[o].instruction.t = "str"

(* Claims about the commands of a channel and the opposed-roll cache,      *)
(* checked under Spec.  last describes the latest invocation of a handler. *)
(***************************************************************************)
RepliesToCached ==
  /\ last.kind = "guild"
  /\ last.reached
  /\ last.reply \in DOMAIN posted
  /\ posted[last.reply].at > 0

(***************************************************************************)
(* C4: a command sent as a reply to the message m an eligible roll was     *)
(* cached under, with fewer than 50 other keys set in the opposed-roll     *)
(* cache since, gets exactly the roll cached under m as its opposed roll.  *)
(***************************************************************************)
C4_ReplyGetsCachedRoll ==
  (RepliesToCached /\ last.since < OpposedCacheMax)
    => /\ last.opposed = posted[last.reply].roll
       /\ (~last.threw => last.roll.opposed = posted[last.reply].roll.id)

\* a reply to m after 49 other keys, rolled against the roll of m
C4_Witness ==
  /\ RepliesToCached
  /\ last.since = OpposedCacheMax - 1
  /\ last.roll # NoRoll
  /\ last.roll.opposed = posted[last.reply].roll.id

(***************************************************************************)
(* C5: once 50 or more other keys were set in the opposed-roll cache       *)
(* without m being set or looked up, m is evicted: a command sent as a     *)
(* reply to m finds no opposed roll, and is rolled as a command that is no *)
(* reply: it yields null only if its own evaluation throws.                *)
(***************************************************************************)
C5_EvictedReplyDegrades ==
  (RepliesToCached /\ last.untouched >= OpposedCacheMax)
    => /\ last.opposed = NoRoll
       /\ (last.roll = NoRoll <=> last.threw)
       /\ (last.roll # NoRoll => last.roll.opposed = 0)

\* a reply to m after 50 other keys, rolled and sent as a plain roll
C5_Witness ==
  /\ RepliesToCached
  /\ last.untouched >= OpposedCacheMax
  /\ last.roll # NoRoll
  /\ last.roll.opposed = 0
  /\ last.toChannel = "output"

(***************************************************************************)
(* C6: every entry of the opposed-roll cache is a standard roll flagged    *)
(* eligibleForOpposedRoll.                                                 *)
(***************************************************************************)
C6_OnlyEligibleCached ==
  \A k \in DOMAIN opposedRollCache.val :
    /\ opposedRollCache.val[k].t = "roll"
    /\ opposedRollCache.val[k].standard
    /\ opposedRollCache.val[k].eligible

\* a roll that is not eligible was posted and is not cached, an eligible one is
C6_Witness ==
  /\ \E m \in DOMAIN posted : ~posted[m].roll.eligible /\ ~lruHas(opposedRollCache, m)
  /\ \E m \in DOMAIN posted : posted[m].roll.eligible /\ lruHas(opposedRollCache, m)

(***************************************************************************)
(* C7: a guild message whose text begins with neither the mention of the   *)
(* bot nor '.' or the ideographic full stop never reaches tryRollDice and  *)
(* nothing is sent for it.                                                 *)
(***************************************************************************)
C7_UnmarkedIgnored ==
  (last.kind = "guild" /\ ~last.marked)
    => /\ ~last.reached
       /\ last.toChannel = "none"
       /\ last.toUser = "none"

(***************************************************************************)
(* C8: an invocation of tryRollDice whose evaluation throws yields null,   *)
(* saves no card, writes no entry of the opposed-roll cache, and nothing   *)
(* is sent for it.                                                         *)
(***************************************************************************)
C8_FailureHasNoEffects ==
  [][(serial'.roll # serial.roll /\ last'.threw)
       => /\ last'.roll = NoRoll
          /\ ~last'.saved
          /\ opposedRollCache'.val = opposedRollCache.val
          /\ posts' = posts
          /\ last'.toChannel = "none"
          /\ last'.toUser = "none"]_vars

\* a reply to a cached roll, by a user with a card, whose evaluation threw
C8_Witness ==
  /\ RepliesToCached
  /\ last.threw
  /\ last.opposed # NoRoll
  /\ last.roll = NoRoll


(***************************************************************************)
(***************************************************************************)
(* Claims about decideResult, checked under SpecDecide, and about          *)
(* parseFullExp, checked under SpecParse.                                  *)
(***************************************************************************)
InWorstBand(roll, baseValue) ==
  \/ baseValue < 50 /\ roll > 95
  \/ baseValue >= 50 /\ roll = 100

(***************************************************************************)
(* C9: decideResult returns BEST for a roll of 1 whatever the rating;      *)
(* otherwise WORST when baseValue < 50 and roll > 95, or baseValue >= 50   *)
(* and roll = 100, even if roll <= value; otherwise REGULAR_SUCCESS when   *)
(* roll <= value; otherwise FAIL.  One of the four levels is returned.     *)
(***************************************************************************)
C9_DecideLevels ==
  pc = "done" =>
    LET roll == arg.roll
        b    == arg.cardEntry.baseValue
        v    == arg.cardEntry.value
    IN  /\ ret.level \in {"BEST", "REGULAR_SUCCESS", "FAIL", "WORST"}
        /\ (roll = 1 => ret.level = "BEST")
        /\ (roll # 1 /\ InWorstBand(roll, b) => ret.level = "WORST")
        /\ (roll # 1 /\ ~InWorstBand(roll, b) /\ roll <= v => ret.level = "REGULAR_SUCCESS")
        /\ (roll # 1 /\ ~InWorstBand(roll, b) /\ roll > v => ret.level = "FAIL")
        /\ ret.success = (ret.level \in {"BEST", "REGULAR_SUCCESS"})

\* a rating below 50 and a roll of 97 that is not above the value: WORST all the same
C9_Witness ==
  /\ pc = "done"
  /\ arg.roll = 97
  /\ arg.cardEntry.baseValue < 50
  /\ arg.cardEntry.value >= 97
  /\ ret.level = "WORST"

\* the token of a command text: the text before the first ideograph or space
TokenOf(s) ==
  LET cut == {i \in 1..Len(s) : s[i] \in Ideographs \cup Spaces}
  IN  IF cut = {} THEN s ELSE SubSeq(s, 1, (CHOOSE i \in cut : \A j \in cut : i <= j) - 1)

IsBonusPenaltyToken(t) ==
  /\ Len(t) >= 2
  /\ t[1] = "r"
  /\ t[2] \in {"b", "p"}
  /\ \A i \in 3..Len(t) : IsDigit(t[i])

ExtraDice(t) == IF Len(t) = 2 THEN 1 ELSE parseInt(SubSeq(t, 3, Len(t)))

\* the expression <n>d%k<keep>1: n percentile dice, keep the lowest ("l") or highest ("h")
KeepOneOf(n, keep) == numToString(n) \o <<"d", "%", "k", keep, "1">>

(***************************************************************************)
(* C10, as claimed: for a token r[bp]<N>? (N defaulting to 1) parseFullExp *)
(* yields an expression that rolls N+1 percentile dice and keeps one of    *)
(* them: the highest for b (bonus), the lowest for p (penalty).            *)
(***************************************************************************)
C10_BonusKeepsHighest ==
  pc = "done" /\ IsBonusPenaltyToken(TokenOf(arg)) =>
    ret[1] = KeepOneOf(ExtraDice(TokenOf(arg)) + 1,
                       IF TokenOf(arg)[2] = "b" THEN "h" ELSE "l")

(***************************************************************************)
(* C10, amended: for a token r[bp]<N>? (N defaulting to 1) parseFullExp    *)
(* yields an expression that rolls N+1 percentile dice and keeps one of    *)
(* them: the lowest for b (bonus), the highest for p (penalty).            *)
(***************************************************************************)
C10_BonusKeepsLowest ==
  pc = "done" /\ IsBonusPenaltyToken(TokenOf(arg)) =>
    ret[1] = KeepOneOf(ExtraDice(TokenOf(arg)) + 1,
                       IF TokenOf(arg)[2] = "b" THEN "l" ELSE "h")

\* 'rb2 侦察' has been parsed into 3d%kl1
C10_Witness ==
  /\ pc = "done"
  /\ arg = <<"r", "b", "2", " ", "U4FA6", "U5BDF">>
  /\ ret[1] = <<"3", "d", "%", "k", "l", "1">>

(***************************************************************************)
(* C11: for every command text that is not empty and is trimmed, the       *)
(* expression parseFullExp returns is not the empty string.                *)
(***************************************************************************)
C11_ExpressionNeverEmpty ==
  (pc = "done" /\ arg # <<>> /\ trim(arg) = arg) => ret[1] # <<>>

\* the default-roll tokens of parseFullExp
DefaultRollTokens == {<<"d">>, <<"r">>, <<"r", "d">>, <<"r", "a">>}

(***************************************************************************)
(* C12: for a command text whose token is d, r, rd or ra, parseFullExp     *)
(* returns the expression d% and, as the descriptor, the text from the     *)
(* first ideograph or white space on, unchanged.                           *)
(***************************************************************************)
C12_DefaultRollTokens ==
  (pc = "done" /\ TokenOf(arg) \in DefaultRollTokens)
    => /\ ret[1] = <<"d", "%">>
       /\ TokenOf(arg) \o ret[2] = arg

\* 'rd' followed at once by a skill name has been parsed into d% and the name
C12_Witness ==
  /\ pc = "done"
  /\ arg = <<"r", "d", "U4FA6", "U5BDF">>
  /\ ret = <<<<"d", "%">>, <<"U4FA6", "U5BDF">>>>

(***************************************************************************)
(* C13: the output of a hidden roll made for a guild message is not sent   *)
(* to the channel: no handler awaits a post of it, the only message of the *)
(* channel it brings is the stub, and the output goes to the user only.    *)
(***************************************************************************)
C13_HiddenOutputWithheld ==
  /\ \A p \in posts : p.from = "guild" => ~p.roll.hidden
  /\ \A m \in DOMAIN posted : posted[m].roll.hidden => posted[m].stub
  /\ (last.kind = "guild" /\ last.roll.hidden)
       => /\ last.toChannel \in {"stub", "none"}
          /\ last.toUser \in {"output", "none"}
  /\ (last.kind = "guild" /\ ~last.roll.hidden) => last.toUser = "none"

\* a hidden roll: the stub to the channel, the output to the user
C13_Witness ==
  /\ last.kind = "guild"
  /\ last.roll.hidden
  /\ last.toChannel = "stub"
  /\ last.toUser = "output"

(***************************************************************************)
(* C14: a direct message of a known sender gets exactly one reply: the     *)
(* output of the roll when the text is a command that rolls, the fallback  *)
(* reply otherwise, never both and never none.  A guild message whose      *)
(* expression is not recognised gets no reply.                             *)
(***************************************************************************)
C14_OneReplyToDirectMessage ==
  /\ last.kind = "direct"
       => /\ last.toUser = IF last.roll # NoRoll THEN "output" ELSE "fallback"
          /\ (last.roll # NoRoll <=> last.reached /\ ~last.threw)
          /\ (last.reached => last.fullExp # <<>>)
          /\ last.toChannel = "none"
  /\ (last.kind = "guild" /\ last.reached /\ last.threw)
       => last.toChannel = "none" /\ last.toUser = "none"

\* a direct message with an expression that is not recognised got the fallback reply
C14_Witness ==
  /\ last.kind = "direct"
  /\ last.reached
  /\ last.threw
  /\ last.toUser = "fallback"

\* the fetches that fail in a step: gone from fetches, and no object fetched
Failing == {f \in DOMAIN fetches : f \notin DOMAIN fetches' /\ f \notin DOMAIN objs'}

(***************************************************************************)
(* C15: when the fetch of the message of a reaction fails, the invocation  *)
(* is abandoned with no roll and no reply, nothing is raised out of the    *)
(* handler, the key holds no entry, and no fetch is issued again.          *)
(***************************************************************************)
C15_FetchFailureSwallowed ==
  [][\A f \in Failing :
       /\ serial'.roll = serial.roll
       /\ posts' = posts
       /\ last' = last
       /\ ready' = <<>>
       /\ ~(lruHas(msgCache', fetches[f].key)
              /\ msgCache'.val[fetches[f].key] \in {[t |-> "fetch", id |-> f],
                                                    [t |-> "entry", id |-> f]})
       /\ apiCalls' = apiCalls
       /\ DOMAIN fetches' \subseteq DOMAIN fetches
       /\ events'.unhandled = events.unhandled]_vars

\* the rating a card has under a skill name, 0 when it has none
RatingOf(card, name) ==
  IF card = NoCard THEN 0
  ELSE IF name \in {"sanity", "sc", "SC"} THEN card.san
  ELSE IF name = "luck" THEN card.luck
  ELSE IF name = "idea" THEN card.props["int"]
  ELSE IF name \in DOMAIN card.props THEN card.props[name]
  ELSE IF name = "spot2" THEN card.skills["spot"]
  ELSE IF name \in DOMAIN card.skills THEN card.skills[name]
  ELSE 0

(***************************************************************************)
(* C16: in a channel, when the user has no card or the card has no entry   *)
(* for the skill named, a command with a valid dice expression yields a    *)
(* result, not null, and the result carries no classification.             *)
(***************************************************************************)
C16_NoSheetStillRolls ==
  (pc = "done" /\ arg.channel /\ ~arg.dice.throws /\ RatingOf(arg.card, arg.skill) = 0)
    => /\ ~ret.null
       /\ ret.resultDesc = <<>>
       /\ ~ret.notified

\* a check of a skill the card has not: a result without classification
C16_Witness ==
  /\ pc = "done"
  /\ arg.channel
  /\ arg.card # NoCard
  /\ arg.skill = "climb"
  /\ ~ret.null
  /\ ret.resultDesc = <<>>

(***************************************************************************)
(* C18: in a check of a skill of the card, a hard check compares the roll  *)
(* with floor(rating / 2) and an extreme one with floor(rating / 5); the   *)
(* rolls that are best or worst are the same for every difficulty.         *)
(***************************************************************************)
OrdinarySkills == {"int", "spot", "spot2", "dodge"}

C18_DifficultyScalesTarget ==
  (pc = "done" /\ arg.channel /\ ~arg.dice.throws
     /\ arg.skill \in OrdinarySkills /\ RatingOf(arg.card, arg.skill) # 0)
    => LET rating == RatingOf(arg.card, arg.skill)
           roll   == arg.dice.total
           value  == IF arg.difficulty \in {<<"extreme">>, <<"limit">>, <<"hard", "extreme">>}
                       THEN rating \div 5
                     ELSE IF arg.difficulty = <<"hard">> THEN rating \div 2
                     ELSE rating
       IN  /\ (roll = 1 <=> ret.resultDesc = <<"best">>)
           /\ (roll > 95 <=> ret.resultDesc = <<"worst">>)
           /\ (roll \in 2..95
                 => ret.resultDesc = IF roll <= value THEN <<"le", value>> ELSE <<"gt", value>>)

\* a hard check of a skill rated 33: a roll of 17 fails against 16
C18_Witness ==
  /\ pc = "done"
  /\ arg.channel
  /\ arg.skill = "spot"
  /\ arg.difficulty = <<"hard">>
  /\ RatingOf(arg.card, "spot") = 33
  /\ arg.dice.total = 17
  /\ ret.resultDesc = <<"gt", 16>>

(***************************************************************************)
(* C19: the checks of sanity, luck and idea are made against the sanity,   *)
(* the luck and the intelligence of the card, and are classified as the    *)
(* checks of a skill are: a roll of 1 is best, a roll above 95 is worst.   *)
(***************************************************************************)
SpecialChecks == {"sanity", "sc", "SC", "luck", "idea"}

C19_SpecialChecksClassified ==
  (pc = "done" /\ arg.channel /\ ~arg.dice.throws /\ arg.card # NoCard
     /\ arg.skill \in SpecialChecks /\ arg.difficulty = <<>>)
    => LET value == RatingOf(arg.card, arg.skill)
           roll  == arg.dice.total
       IN  /\ (roll = 1 => ret.resultDesc = <<"best">>)
           /\ (roll > 95 => ret.resultDesc = <<"worst">>)
           /\ (roll \in 2..95
                 => ret.resultDesc = IF roll <= value THEN <<"le", value>> ELSE <<"gt", value>>)

KeysOf(c) == {c.order[i] : i \in 1..Len(c.order)}

\* the step from c to d keeps at most max entries and, when it sets keys that were
\* not in c, drops the least recently used entries of c and no others
EvictsLeastRecentlyUsed(c, d, max) ==
  LET new  == KeysOf(d) \ KeysOf(c)
      kept == SelectSeq(c.order, LAMBDA k : k \in KeysOf(d))
      room == max - Cardinality(new)
  IN  /\ Len(d.order) <= max
      /\ KeysOf(d) = DOMAIN d.val
      /\ new # {}
           => /\ Len(kept) = IF Len(c.order) <= room THEN Len(c.order) ELSE room
              /\ kept = SubSeq(c.order, Len(c.order) - Len(kept) + 1, Len(c.order))

(***************************************************************************)
(* C17: after every step the instruction cache and the opposed-roll cache  *)
(* hold at most 50 entries each, and a set of a new key into a full cache  *)
(* evicts the least recently used entry.                                   *)
(***************************************************************************)
C17_CachesBounded ==
  [][/\ EvictsLeastRecentlyUsed(msgCache, msgCache', MsgCacheMax)
     /\ EvictsLeastRecentlyUsed(opposedRollCache, opposedRollCache', OpposedCacheMax)]_vars

\* the instruction cache is full and the message first reacted to has been evicted
C17_Witness ==
  /\ Len(msgCache.order) = MsgCacheMax
  /\ events.filled = MsgCacheMax
  /\ apiCalls[<<Channel, WithInstruction>>] = 1
  /\ ~Cached(msgCache, KeyOf(<<Channel, WithInstruction>>))
  /\ fetches = <<>>

(***************************************************************************)
(* C20: however the posts of concurrently handled commands and reactions   *)
(* complete, every entry of the opposed-roll cache maps a message id m to  *)
(* the roll whose output was posted as message m, and no roll whose post   *)
(* has not completed is in the cache.                                      *)
(***************************************************************************)
C20_EntryIsItsOwnReply ==
  /\ \A m \in DOMAIN opposedRollCache.val :
       /\ m \in DOMAIN posted
       /\ opposedRollCache.val[m] = posted[m].roll
  /\ \A p \in posts : \A m \in DOMAIN opposedRollCache.val :
       opposedRollCache.val[m] # p.roll

\* a command and a reaction were handled, and two cached rolls were posted in the
\* order opposite to the one they were rolled in
C20_Witness ==
  /\ events.react >= 1
  /\ events.guild >= 1
  /\ \E m \in DOMAIN opposedRollCache.val, n \in DOMAIN opposedRollCache.val :
       /\ m < n
       /\ opposedRollCache.val[m].id > opposedRollCache.val[n].id

\* the message ids of the stubs of hidden rolls
Stubs == {m \in DOMAIN posted : posted[m].stub}

(***************************************************************************)
(* C21: a hidden roll is never written to the opposed-roll cache, whatever *)
(* its eligibleForOpposedRoll flag: no entry of the cache is a hidden roll, *)
(* no entry is kept under the id of a stub, and a command sent as a reply  *)
(* to the stub of a hidden roll is evaluated without an opposed roll.      *)
(***************************************************************************)
C21_HiddenNeverCached ==
  /\ \A m \in DOMAIN opposedRollCache.val : ~opposedRollCache.val[m].hidden
  /\ \A m \in Stubs : posted[m].roll.hidden /\ ~lruHas(opposedRollCache, m)
  /\ (last.kind = "guild" /\ last.reached /\ last.reply \in Stubs)
       => /\ last.opposed = NoRoll
          /\ last.roll.opposed = 0

\* a command that rolls was sent as a reply to the stub of a hidden roll that was
\* eligible for an opposed roll
C21_Witness ==
  /\ last.kind = "guild"
  /\ last.reached
  /\ last.reply \in Stubs
  /\ posted[last.reply].roll.eligible
  /\ last.roll # NoRoll
  /\ last.opposed = NoRoll

(***************************************************************************)
(* C22: the key of the instruction cache round-trips: for every channel id *)
(* c and message id m the fetch of the key c-m requests the message m of   *)
(* the channel c, and no other pair of ids has the same key.               *)
(***************************************************************************)
C22_KeyRoundTrips ==
  pc = "done"
    => /\ ret.req = arg
       /\ \A q \in KeyInputs : MakeKey(q[1], q[2]) = ret.key => q = arg

====
